---- MODULE Spec2Model ----
(***************************************************************************)
(* Smart home automation sketch for the ESP8266 (relay on D1, DHT11 on D2, *)
(* MQTT through PubSubClient).                                             *)
(*                                                                         *)
(* The repository holds two versions of the sketch:                        *)
(*   "ino"    - code/smart_home.ino, the sketch that is uploaded;          *)
(*   "readme" - the listing in README.md (section "Code"), the documented  *)
(*              sketch with the DHT sampling, telemetry and thresholds.    *)
(* The variable sketch, fixed at Init, says which of the two runs.  setup, *)
(* setup_wifi and reconnect are the same in both; callback and loop differ.*)
(*                                                                         *)
(* pc is the position of the single thread of control:                     *)
(*   boot         before setup()                                           *)
(*   wifi_begin   setup_wifi() entered, WiFi.begin not yet issued          *)
(*   wifi_wait    in the while (WiFi.status() != WL_CONNECTED) loop        *)
(*   setup_tail   setup_wifi() returned; setServer/setCallback to run      *)
(*   loop         top of loop(): about to test client.connected()          *)
(*   reconnect    reconnect(): about to test the while condition           *)
(*   connect      reconnect(): about to call client.connect                *)
(*   subscribe    reconnect(): connect returned true, subscribe to run     *)
(*   delay5000    reconnect(): connect returned false, delay(5000) to run  *)
(*   client_loop  loop(): about to call client.loop()                      *)
(*   drained      loop(): client.loop() has returned                       *)
(*   publish      readme loop(): temp read, isnan test and publish to run  *)
(*   automate     readme loop(): threshold tests to run                    *)
(*   delay10000   readme loop(): thresholds applied, delay(10000) to run   *)
(*                                                                         *)
(* cur is the message client.loop() handed to the callback in the current  *)
(* pass (NoMsg if none), temp the local of the readme loop().  everJoined, *)
(* sessions (sessions opened so far) and attempts (client.connect calls in *)
(* the current pass) record history; the counters saturate.  lastAttempt   *)
(* is the result of the latest client.connect of the current pass (none,   *)
(* ok, failed) and delayedMs the milliseconds of delay() run since then.   *)
(* touched says whether the callback has been called or a threshold test   *)
(* has written the relay since setup.                                      *)
(***************************************************************************)
EXTENDS Integers, Sequences, FiniteSets, TLC

VARIABLES sketch, pc, relay, wifi, wifiBegun, brokerUp, connected, subscribed,
          cur, dht, temp, published, everJoined, sessions, attempts,
          lastAttempt, delayedMs, touched

vars == <<sketch, pc, relay, wifi, wifiBegun, brokerUp, connected, subscribed,
          cur, dht, temp, published, everJoined, sessions, attempts,
          lastAttempt, delayedMs, touched>>

----------------------------------------------------------------------------
(* Program constants and input sets                                        *)

\* History counters saturate at these bounds.
MaxSessions == 2

MaxAttempts == 2

Saturate(n, max) == IF n > max THEN max ELSE n

Sketches == {"ino", "readme"}

\* The topic each sketch subscribes to.
light_topic(s) == IF s = "ino" THEN "home/room1/light1" ELSE "home/room1/light"

temp_topic == "home/room1/temperature"

\* Topics of the PUBLISH packets the transport may hand to the callback.
Topics == {"home/room1/light1", "home/room1/light", temp_topic}

\* Payloads are byte sequences; a byte is a one-character string.
Payloads == { <<>>, <<"1">>, <<"0">>, <<"O", "N">>, <<"O", "F", "F">>,
              <<"o", "n">>, <<"O", "N", "X">> }

PayloadON  == <<"O", "N">>
PayloadOFF == <<"O", "F", "F">>

\* What payload[0] can hold when length = 0: the byte after the packet in the
\* client's receive buffer, left over from earlier traffic.
StaleBytes == {"1", "0", "O"}

Messages == [topic : Topics, payload : Payloads]

NoMsg == [topic |-> "none", payload |-> <<>>]

\* Temperatures are in tenths of a degree Celsius: 16.0 is 160, 24.0 is 240.
lowThreshold  == 160
highThreshold == 240

Temps == {150, 160, 161, 239, 240, 250}

\* A float returned by dht.readTemperature(): a number or not-a-number.
NaNReading == [nan |-> TRUE, v |-> 0]

Readings == {NaNReading} \cup {[nan |-> FALSE, v |-> t] : t \in Temps}

isnan(t) == t.nan

\* IEEE comparisons: every ordered comparison with a NaN is false.
FloatLe(t, bound) == ~t.nan /\ t.v <= bound

FloatGe(t, bound) == ~t.nan /\ t.v >= bound

\* String(temp): the value printed with two decimals; the third argument of
\* client.publish is the retained flag.
NoPub == [topic |-> "none", whole |-> 0, frac |-> 0, retained |-> FALSE]

\* Mutant of TelemetryMsg: published without the retained flag.
TelemetryMsg_NotRetained(t) ==
    [topic |-> temp_topic, whole |-> t.v \div 10, frac |-> (t.v % 10) * 10,
     retained |-> FALSE]

TelemetryMsg(t) ==
    [topic |-> temp_topic, whole |-> t.v \div 10, frac |-> (t.v % 10) * 10,
     retained |-> TRUE]

\* The relay is active low.
ActuatorState == IF relay = "LOW" THEN "On"
                 ELSE IF relay = "HIGH" THEN "Off" ELSE "Undriven"

----------------------------------------------------------------------------
(* Pure parts of the handlers                                              *)

\* smart_home.ino callback: the level written for first byte b.
callback_ino(b) == IF b = "1" THEN "LOW" ELSE "HIGH"

\* The bytes payload[0] can be for a payload of the given length.
FirstByte(payload) == IF Len(payload) = 0 THEN StaleBytes ELSE {payload[1]}

\* Mutant of callback_readme: "ON" toggles the relay.
callback_readme_Toggle(level, topic, payload) ==
    IF topic = light_topic("readme")
    THEN IF payload = PayloadON
         THEN (IF level = "LOW" THEN "HIGH" ELSE "LOW")
         ELSE IF payload = PayloadOFF THEN "HIGH"
         ELSE level
    ELSE level

\* README callback: the relay level after a message, given the level before.
callback_readme(level, topic, payload) ==
    IF topic = light_topic("readme")
    THEN IF payload = PayloadON THEN "LOW"
         ELSE IF payload = PayloadOFF THEN "HIGH"
         ELSE level
    ELSE level

\* README loop, threshold tests: whether one of the two tests is true, so that
\* the evaluation writes the relay.
Decides(t) == FloatLe(t, lowThreshold) \/ FloatGe(t, highThreshold)

\* Mutant of Automate: one threshold, no band.
Automate_SingleThreshold(level, t) ==
    IF FloatLe(t, lowThreshold) THEN "LOW" ELSE "HIGH"

\* README loop, threshold tests: the relay level after the evaluation.
Automate(level, t) ==
    IF FloatLe(t, lowThreshold) THEN "LOW"
    ELSE IF FloatGe(t, highThreshold) THEN "HIGH"
    ELSE level

----------------------------------------------------------------------------
Init ==
    /\ sketch \in Sketches
    /\ pc = "boot"
    /\ relay = "INPUT"
    /\ wifi = "down"
    /\ wifiBegun = FALSE
    /\ brokerUp \in BOOLEAN
    /\ connected = FALSE
    /\ subscribed = FALSE
    /\ cur = NoMsg
    /\ dht \in Readings
    /\ temp = NaNReading
    /\ published = NoPub
    /\ everJoined = FALSE
    /\ sessions = 0
    /\ attempts = 0
    /\ lastAttempt = "none"
    /\ delayedMs = 0
    /\ touched = FALSE

----------------------------------------------------------------------------
(* The sketch                                                              *)

\* Mutant of setup: pinMode(RELAY_PIN, OUTPUT) without the digitalWrite, which
\* leaves the output at its reset level, low.
setup_PinModeOnly ==
    /\ pc = "boot"
    /\ relay' = "LOW"
    /\ pc' = "wifi_begin"
    /\ UNCHANGED <<sketch, wifi, wifiBegun, brokerUp, connected, subscribed,
                   cur, dht, temp, published, everJoined, sessions, attempts,
                   lastAttempt, delayedMs, touched>>

\* setup(): pinMode, digitalWrite(HIGH), then the call of setup_wifi().
setup ==
    /\ pc = "boot"
    /\ relay' = "HIGH"
    /\ pc' = "wifi_begin"
    /\ UNCHANGED <<sketch, wifi, wifiBegun, brokerUp, connected, subscribed,
                   cur, dht, temp, published, everJoined, sessions, attempts,
                   lastAttempt, delayedMs, touched>>

\* setup_wifi(): delay(10); WiFi.begin(ssid, password).
setup_wifi_begin ==
    /\ pc = "wifi_begin"
    /\ wifiBegun' = TRUE
    /\ pc' = "wifi_wait"
    /\ UNCHANGED <<sketch, relay, wifi, brokerUp, connected, subscribed,
                   cur, dht, temp, published, everJoined, sessions, attempts,
                   lastAttempt, delayedMs, touched>>

\* setup_wifi(): the polling loop is left when the status is WL_CONNECTED;
\* until then each iteration only delays.
setup_wifi_wait ==
    /\ pc = "wifi_wait"
    /\ wifi = "up"
    /\ pc' = "setup_tail"
    /\ UNCHANGED <<sketch, relay, wifi, wifiBegun, brokerUp, connected,
                   subscribed, cur, dht, temp, published, everJoined, sessions, attempts,
                   lastAttempt, delayedMs, touched>>

\* setup(): setServer, setCallback (and dht.begin in the readme sketch).
setup_tail ==
    /\ pc = "setup_tail"
    /\ pc' = "loop"
    /\ UNCHANGED <<sketch, relay, wifi, wifiBegun, brokerUp, connected,
                   subscribed, cur, dht, temp, published, everJoined, sessions, attempts,
                   lastAttempt, delayedMs, touched>>

\* Mutant of LoopGate: loop() without the connection test.
LoopGate_NoTest(isConnected) == "client_loop"

\* loop(): where control goes after the test of client.connected().
LoopGate(isConnected) == IF isConnected THEN "client_loop" ELSE "reconnect"

loop_check ==
    /\ pc = "loop"
    /\ pc' = LoopGate(connected)
    /\ attempts' = 0
    /\ lastAttempt' = "none"
    /\ delayedMs' = 0
    /\ UNCHANGED <<sketch, relay, wifi, wifiBegun, brokerUp, connected,
                   subscribed, cur, dht, temp, published, everJoined, sessions, touched>>

\* Mutant of ReconnectWhile: an if instead of the while, one attempt a pass.
ReconnectWhile_If(isConnected) ==
    IF isConnected \/ attempts > 0 THEN "client_loop" ELSE "connect"

\* reconnect(): where control goes after the while condition.
ReconnectWhile(isConnected) == IF isConnected THEN "client_loop" ELSE "connect"

reconnect_while ==
    /\ pc = "reconnect"
    /\ pc' = ReconnectWhile(connected)
    /\ UNCHANGED <<sketch, relay, wifi, wifiBegun, brokerUp, connected,
                   subscribed, cur, dht, temp, published, everJoined, sessions, attempts,
                   lastAttempt, delayedMs, touched>>

\* Mutant of AfterConnect: reconnect() gives up after a failed connect.
AfterConnect_GiveUp(ok) == IF ok THEN "subscribe" ELSE "client_loop"

\* Mutant of AfterConnect: the subscribe after a successful connect is missing.
AfterConnect_NoSubscribe(ok) == IF ok THEN "reconnect" ELSE "delay5000"

\* reconnect(): where control goes after client.connect returned ok.
AfterConnect(ok) == IF ok THEN "subscribe" ELSE "delay5000"

\* client.connect("ESP8266Client"): a session is opened when the network is up
\* and the broker accepts; a new session starts with no subscriptions.
reconnect_connect ==
    /\ pc = "connect"
    /\ LET ok == (wifi = "up" /\ brokerUp) IN
         /\ connected' = ok
         /\ sessions' = IF ok THEN Saturate(sessions + 1, MaxSessions) ELSE sessions
         /\ pc' = AfterConnect(ok)
         /\ lastAttempt' = IF ok THEN "ok" ELSE "failed"
    /\ subscribed' = FALSE
    /\ attempts' = Saturate(attempts + 1, MaxAttempts)
    /\ delayedMs' = 0
    /\ UNCHANGED <<sketch, relay, wifi, wifiBegun, brokerUp, cur, dht, temp,
                   published, everJoined, touched>>

\* Mutant of SubscribeResult: the subscribe has no effect.
SubscribeResult_Ignored(isConnected, was) == was

\* client.subscribe(topic): registers the topic in the session if it is still
\* open; the result is not looked at.
SubscribeResult(isConnected, was) == IF isConnected THEN TRUE ELSE was

reconnect_subscribe ==
    /\ pc = "subscribe"
    /\ subscribed' = SubscribeResult(connected, subscribed)
    /\ pc' = "reconnect"
    /\ UNCHANGED <<sketch, relay, wifi, wifiBegun, brokerUp, connected,
                   cur, dht, temp, published, everJoined, sessions, attempts,
                   lastAttempt, delayedMs, touched>>

\* Mutant of ReconnectDelayMs: a zero dropped from the delay.
ReconnectDelayMs_Short == 5000 \div 10

\* reconnect(): the argument of delay() after a failed connect.
ReconnectDelayMs == 5000

\* reconnect(): delay(5000), then back to the while condition.
reconnect_delay ==
    /\ pc = "delay5000"
    /\ pc' = "reconnect"
    /\ delayedMs' = delayedMs + ReconnectDelayMs
    /\ UNCHANGED <<sketch, relay, wifi, wifiBegun, brokerUp, connected,
                   subscribed, cur, dht, temp, published, everJoined, sessions, attempts,
                   lastAttempt, touched>>

\* The PUBLISH packets that can be waiting on the session: the subscribed
\* topic once subscribed; nothing in the sketch excludes other topics.
Arrivals ==
    {m \in Messages : m.topic = light_topic(sketch) => subscribed}

\* client.loop(): on an open session with a packet waiting, the callback of
\* the running sketch is called with it; otherwise nothing is done.
client_loop ==
    /\ pc = "client_loop"
    /\ pc' = "drained"
    /\ \/ /\ cur' = NoMsg
          /\ relay' = relay
          /\ touched' = touched
       \/ /\ connected
          /\ \E m \in Arrivals :
               /\ cur' = m
               /\ touched' = TRUE
               /\ IF sketch = "ino"
                  THEN \E b \in FirstByte(m.payload) : relay' = callback_ino(b)
                  ELSE relay' = callback_readme(relay, m.topic, m.payload)
    /\ UNCHANGED <<sketch, wifi, wifiBegun, brokerUp, connected, subscribed,
                   dht, temp, published, everJoined, sessions, attempts,
                   lastAttempt, delayedMs>>

\* smart_home.ino loop(): nothing follows client.loop().
loop_return ==
    /\ pc = "drained"
    /\ sketch = "ino"
    /\ pc' = "loop"
    /\ cur' = NoMsg
    /\ UNCHANGED <<sketch, relay, wifi, wifiBegun, brokerUp, connected,
                   subscribed, dht, temp, published, everJoined, sessions, attempts,
                   lastAttempt, delayedMs, touched>>

\* Mutant of read_temperature: the threshold tests come right after the read
\* and the publish is left out.
read_temperature_ThenAutomate ==
    /\ pc = "drained"
    /\ sketch = "readme"
    /\ temp' = dht
    /\ pc' = "automate"
    /\ UNCHANGED <<sketch, relay, wifi, wifiBegun, brokerUp, connected,
                   subscribed, cur, dht, published, everJoined, sessions, attempts,
                   lastAttempt, delayedMs, touched>>

\* README loop(): float temp = dht.readTemperature().
read_temperature ==
    /\ pc = "drained"
    /\ sketch = "readme"
    /\ temp' = dht
    /\ pc' = "publish"
    /\ UNCHANGED <<sketch, relay, wifi, wifiBegun, brokerUp, connected,
                   subscribed, cur, dht, published, everJoined, sessions, attempts,
                   lastAttempt, delayedMs, touched>>

\* Mutant of PublishResult: the isnan test is missing.
PublishResult_NoNanTest(t, isConnected, was) ==
    IF isConnected THEN TelemetryMsg(t) ELSE was

\* README loop(): what the telemetry topic holds after the isnan test and
\* client.publish(temp_topic, String(temp).c_str(), true); publish sends
\* nothing on a closed session.
PublishResult(t, isConnected, was) ==
    IF ~isnan(t) /\ isConnected THEN TelemetryMsg(t) ELSE was

telemetry_publish ==
    /\ pc = "publish"
    /\ published' = PublishResult(temp, connected, published)
    /\ pc' = "automate"
    /\ UNCHANGED <<sketch, relay, wifi, wifiBegun, brokerUp, connected,
                   subscribed, cur, dht, temp, everJoined, sessions, attempts,
                   lastAttempt, delayedMs, touched>>

\* README loop(): the threshold tests.
automation ==
    /\ pc = "automate"
    /\ relay' = Automate(relay, temp)
    /\ pc' = "delay10000"
    /\ touched' = (touched \/ Decides(temp))
    /\ UNCHANGED <<sketch, wifi, wifiBegun, brokerUp, connected, subscribed,
                   cur, dht, temp, published, everJoined, sessions, attempts,
                   lastAttempt, delayedMs>>

\* README loop(): delay(10000), end of the pass; temp goes out of scope.
loop_delay ==
    /\ pc = "delay10000"
    /\ pc' = "loop"
    /\ temp' = NaNReading
    /\ cur' = NoMsg
    /\ UNCHANGED <<sketch, relay, wifi, wifiBegun, brokerUp, connected,
                   subscribed, dht, published, everJoined, sessions, attempts,
                   lastAttempt, delayedMs, touched>>

----------------------------------------------------------------------------
(* The environment: access point, broker, sensor                           *)

\* The station associates with the access point (after WiFi.begin).
WifiUp ==
    /\ wifiBegun
    /\ wifi = "down"
    /\ wifi' = "up"
    /\ everJoined' = TRUE
    /\ UNCHANGED <<sketch, pc, relay, wifiBegun, brokerUp, connected,
                   subscribed, cur, dht, temp, published, sessions, attempts,
                   lastAttempt, delayedMs, touched>>

\* The link to the access point is lost.
WifiLoss ==
    /\ wifi = "up"
    /\ wifi' = "down"
    /\ UNCHANGED <<sketch, pc, relay, wifiBegun, brokerUp, connected,
                   subscribed, cur, dht, temp, published, everJoined, sessions, attempts,
                   lastAttempt, delayedMs, touched>>

\* The broker session is lost; its subscriptions go with it.
SessionDrop ==
    /\ connected
    /\ connected' = FALSE
    /\ subscribed' = FALSE
    /\ UNCHANGED <<sketch, pc, relay, wifi, wifiBegun, brokerUp, cur, dht,
                   temp, published, everJoined, sessions, attempts,
                   lastAttempt, delayedMs, touched>>

\* The broker stops accepting sessions and closes the open one.
BrokerDown ==
    /\ brokerUp
    /\ brokerUp' = FALSE
    /\ connected' = FALSE
    /\ subscribed' = FALSE
    /\ UNCHANGED <<sketch, pc, relay, wifi, wifiBegun, cur, dht, temp,
                   published, everJoined, sessions, attempts,
                   lastAttempt, delayedMs, touched>>

\* The broker accepts sessions again.
BrokerUp ==
    /\ ~brokerUp
    /\ brokerUp' = TRUE
    /\ UNCHANGED <<sketch, pc, relay, wifi, wifiBegun, connected, subscribed,
                   cur, dht, temp, published, everJoined, sessions, attempts,
                   lastAttempt, delayedMs, touched>>

\* The value the sensor reports changes; it is stable from the read of a pass
\* to the end of that pass's evaluation.
SensorChange ==
    /\ pc \notin {"publish", "automate", "delay10000"}
    /\ \E r \in Readings : r # dht /\ dht' = r
    /\ UNCHANGED <<sketch, pc, relay, wifi, wifiBegun, brokerUp, connected,
                   subscribed, cur, temp, published, everJoined, sessions, attempts,
                   lastAttempt, delayedMs, touched>>

----------------------------------------------------------------------------
Next ==
    \/ setup
    \/ setup_wifi_begin
    \/ setup_wifi_wait
    \/ setup_tail
    \/ loop_check
    \/ reconnect_while
    \/ reconnect_connect
    \/ reconnect_subscribe
    \/ reconnect_delay
    \/ client_loop
    \/ loop_return
    \/ read_temperature
    \/ telemetry_publish
    \/ automation
    \/ loop_delay
    \/ WifiUp
    \/ WifiLoss
    \/ SessionDrop
    \/ BrokerDown
    \/ BrokerUp
    \/ SensorChange

Spec == Init /\ [][Next]_vars

----------------------------------------------------------------------------
(* Derived notions used by the properties                                  *)

\* The control topic of the running sketch.
ControlTopic == light_topic(sketch)

\* client.loop() has just handed a message to the callback and returned.
Delivered == pc = "drained" /\ cur # NoMsg

\* The step in which client.loop() hands a message to the callback.
Delivery == pc = "client_loop" /\ pc' = "drained" /\ cur' # NoMsg

\* The last position of a pass of loop() at which the relay can still be
\* written: after client.loop() in the ino sketch, after the threshold tests
\* in the readme sketch.
EndOfTick ==
    \/ sketch = "ino" /\ pc = "drained"
    \/ sketch = "readme" /\ pc = "delay10000"

\* A valid reading strictly inside the band.
InBand(t) == ~isnan(t) /\ lowThreshold < t.v /\ t.v < highThreshold

\* Connectivity stages as positions of the sketch: Offline is before the
\* network join is issued; Ready is the part of loop() past the connection
\* gate, where messages are processed and the sensor is sampled and published.
Offline == pc \in {"boot", "wifi_begin"}

ReconnectPcs == {"reconnect", "connect", "subscribe", "delay5000"}

Ready == pc \in {"client_loop", "drained", "publish", "automate", "delay10000"}

----------------------------------------------------------------------------
(* Command dispatch                                                        *)

\* C1: after the callback has returned from a control-topic message, payload
\* "ON" has left the relay LOW (On) and payload "OFF" has left it HIGH (Off).
C1_OnOffApplied ==
    (Delivered /\ cur.topic = ControlTopic) =>
        /\ cur.payload = PayloadON => relay = "LOW"
        /\ cur.payload = PayloadOFF => relay = "HIGH"

\* C2: a control-topic message whose payload is neither "ON" nor "OFF" leaves
\* the relay as it was before the callback.
C2_UnrecognizedIgnored ==
    [][(Delivery /\ cur'.topic = ControlTopic
          /\ cur'.payload \notin {PayloadON, PayloadOFF}) => relay' = relay]_vars

\* C3: a message on a topic other than the control topic leaves the relay as
\* it was, whatever its payload.
C3_OtherTopicDiscarded ==
    [][(Delivery /\ cur'.topic # ControlTopic) => relay' = relay]_vars

----------------------------------------------------------------------------
(* Automation                                                              *)

\* C4: at the end of a tick in which a command was applied, a valid reading
\* >= highThreshold has the actuator Off and a valid reading <= lowThreshold
\* has it On, whatever the command was.
C4_AutomationAfterCommand ==
    (EndOfTick /\ cur # NoMsg /\ cur.topic = ControlTopic) =>
        /\ FloatGe(dht, highThreshold) => ActuatorState = "Off"
        /\ FloatLe(dht, lowThreshold) => ActuatorState = "On"

\* C5: every tick evaluates the reading: at its end a valid reading
\* <= lowThreshold (16.0) has driven the actuator On and a valid reading
\* >= highThreshold (24.0) has driven it Off, boundaries included.
C5_ThresholdsDrive ==
    EndOfTick =>
        /\ FloatLe(dht, lowThreshold) => relay = "LOW"
        /\ FloatGe(dht, highThreshold) => relay = "HIGH"

\* C6: the threshold evaluation changes the relay only when the reading is
\* <= lowThreshold or >= highThreshold; a reading strictly inside the band
\* leaves the relay as it was.
C6_Hysteresis ==
    [][(pc = "automate" /\ relay' # relay) =>
          (FloatLe(temp, lowThreshold) \/ FloatGe(temp, highThreshold))]_vars

\* C6 witness: an evaluation with a reading inside the band has run and the
\* relay is still On from before.
C6_Witness ==
    sketch = "readme" /\ pc = "delay10000" /\ InBand(temp) /\ relay = "LOW"

\* C7: in a pass whose sample is not-a-number, the publish step and the
\* threshold step change neither the relay nor the value on the telemetry
\* topic.
C7_InvalidReadingSkipped ==
    [][(pc \in {"publish", "automate"} /\ isnan(temp)) =>
          (relay' = relay /\ published' = published)]_vars

\* C7 witness: a pass with a not-a-number sample has gone through both steps
\* on an open session, with an earlier value on the telemetry topic and the
\* relay On.
C7_Witness ==
    /\ sketch = "readme" /\ pc = "delay10000" /\ isnan(temp)
    /\ connected /\ published # NoPub /\ relay = "LOW"

----------------------------------------------------------------------------
(* Connectivity                                                            *)

\* C8 as stated: Ready only after the join and then a session open, and a
\* failed session open resets connectivity to Offline.
C8_FailureResetsOffline ==
    /\ [](Ready => (everJoined /\ sessions > 0))
    /\ [][(pc = "connect" /\ pc' = "delay5000") => Offline']_vars

\* C8 amended: the broker stage is entered only after the network join has
\* succeeded, and the Ready part of the loop only after a session has been
\* opened as well; a failed open is retried from the broker stage.
C8_ReadyOnlyAfterJoinAndOpen ==
    /\ pc \in ReconnectPcs => everJoined
    /\ Ready => (everJoined /\ sessions > 0)
    /\ pc = "delay5000" => ~connected

\* C8 witness: the Ready part is reached after a failed open was retried.
C8_Witness == pc = "client_loop" /\ attempts = 2 /\ sessions = 1 /\ connected

\* C9: outside the one position between connect and subscribe, an open
\* session has the control topic subscribed; in particular whenever
\* client.loop() runs on an open session.
C9_SubscribedWhenConnected ==
    (connected /\ pc # "subscribe") => subscribed

\* C9 witness: client.loop() is about to run on a session opened by a
\* reconnect after an earlier session was lost.
C9_Witness ==
    pc = "client_loop" /\ connected /\ subscribed /\ sessions = 2

\* C10 as stated: a failed session open returns not-ready to the tick, which
\* goes on to message draining and sampling.
C10_NonBlocking ==
    [][(pc = "delay5000" /\ pc' # pc) => pc' = "client_loop"]_vars

\* C10 amended: reconnect() is left only with the session open, to
\* client.loop(); until then no message draining, sampling or automation runs.
C10_ReconnectBlocks ==
    [][(pc \in ReconnectPcs /\ pc' \notin ReconnectPcs) =>
          (connected /\ pc' = "client_loop")]_vars

\* C10 witness: the readme loop samples in a pass whose reconnect() made
\* more than one connect attempt.
C10_Witness == sketch = "readme" /\ pc = "publish" /\ attempts = 2

----------------------------------------------------------------------------
(* Progress: the single thread of the sketch keeps running                 *)

\* The steps of the sketch, as opposed to those of its environment.
SketchStep ==
    \/ setup
    \/ setup_wifi_begin
    \/ setup_wifi_wait
    \/ setup_tail
    \/ loop_check
    \/ reconnect_while
    \/ reconnect_connect
    \/ reconnect_subscribe
    \/ reconnect_delay
    \/ client_loop
    \/ loop_return
    \/ read_temperature
    \/ telemetry_publish
    \/ automation
    \/ loop_delay

\* The processor always runs the next statement; delay() returns.  Nothing
\* is assumed of the access point, the broker or the sensor.
FairSpec == Spec /\ WF_vars(SketchStep)

\* From some point on the link and the broker stay available and no open
\* session is lost.
EventuallyAvailable ==
    /\ <>[](wifi = "up" /\ brokerUp)
    /\ <>[][connected => connected']_vars

\* C11 as stated: after the link is lost the loop falls back to Offline and
\* re-issues the network join: a pass that starts with the link down goes to
\* WiFi.begin.
C11_RejoinFromLoop ==
    [][(pc = "loop" /\ wifi = "down" /\ pc' # pc) => pc' = "wifi_begin"]_vars

\* C11 amended: if from some point on the link and the broker stay available
\* and sessions are kept, the loop again and again reaches client.loop() with
\* the session open and the control topic subscribed, whatever was lost
\* before; the join is never issued again.
C11_SelfHealing ==
    EventuallyAvailable => []<>(pc = "client_loop" /\ connected /\ subscribed)

\* C11 witness: the link is lost after a session had been opened and the loop
\* is retrying client.connect, not the join.
C11_Witness ==
    /\ pc = "delay5000" /\ wifi = "down" /\ everJoined /\ sessions > 0
    /\ lastAttempt = "failed"

----------------------------------------------------------------------------
(* Telemetry                                                               *)

\* The step in which the readme loop() calls client.publish.
PublishCall == pc = "publish" /\ pc' = "automate" /\ ~isnan(temp)

\* C12 as stated: the telemetry topic changes only by a retained publish of a
\* valid reading on an open session, and client.publish is never called while
\* the session is down.
C12_NoAttemptWhileDown ==
    [][/\ published' # published =>
            (PublishCall /\ connected /\ published' = TelemetryMsg(temp)
               /\ published'.retained)
       /\ PublishCall => connected]_vars

\* C12 amended: the telemetry topic changes only in the publish step of a
\* pass, entered once a pass from the sensor read, with a valid reading, on
\* an open session, to the formatted reading with the retained flag set.
C12_PublishValidConnectedRetained ==
    [][/\ published' # published =>
            (PublishCall /\ connected /\ published' = TelemetryMsg(temp)
               /\ published'.retained /\ published'.topic = temp_topic)
       /\ (pc' = "publish" /\ pc # "publish") => pc = "drained"]_vars

\* C12 witness: a valid reading has just been published on an open session.
C12_Witness ==
    /\ sketch = "readme" /\ pc = "automate" /\ connected /\ ~isnan(temp)
    /\ published = TelemetryMsg(temp)

----------------------------------------------------------------------------
(* Economy timer                                                           *)

\* Neither sketch declares a timer: the threshold tests keep no record of
\* when the reading went above the high threshold, and no statement reads a
\* clock.  armedAt is that record as the sketch holds it: none, in every
\* state.
armedAt == "none"

\* C13: once an evaluation has found the reading >= highThreshold the economy
\* timer is armed (so that the economy action can fire after
\* economyModeDelay).
C13_TimerArmedOnAbove ==
    (pc = "delay10000" /\ FloatGe(temp, highThreshold)) => armedAt # "none"

----------------------------------------------------------------------------
(* Idempotence of a command                                                *)

\* The relay levels that delivering the message of cur once more, in the
\* current state, can leave.  An empty payload is read through the same
\* stale byte both times, whichever byte that is.
Redelivered ==
    IF sketch = "ino"
    THEN {callback_ino(b) : b \in FirstByte(cur.payload)}
    ELSE {callback_readme(relay, cur.topic, cur.payload)}

\* C14: right after a message has been delivered, delivering the same message
\* again leaves the relay where the first delivery left it, for every payload
\* and topic and every level the relay had before.
C14_Idempotent == Delivered => relay \in Redelivered

\* C14 witness: an "ON" command has switched the relay on in the readme
\* sketch, where the callback's result depends on the level before.
C14_Witness ==
    /\ Delivered /\ sketch = "readme" /\ cur.topic = ControlTopic
    /\ cur.payload = PayloadON /\ relay = "LOW"

----------------------------------------------------------------------------
(* Order of the steps of one pass of loop()                                *)

\* C15 as stated: in a pass the sample is followed by the automation
\* evaluation, the automation evaluation by the telemetry publish, and the
\* publish by the end of the pass.
C15_AutomationBeforePublish ==
    [][pc' # pc =>
          /\ (pc = "drained" /\ sketch = "readme") => pc' = "automate"
          /\ pc = "automate" => pc' = "publish"
          /\ pc = "publish" => pc' = "delay10000"]_vars

\* C15 amended: a pass runs the connection test (with reconnect() when the
\* session is closed), then client.loop(), and there smart_home.ino's pass
\* ends; the README pass goes on with the sensor read, then the telemetry
\* publish, which leaves the relay alone, then the threshold tests, which
\* leave the telemetry topic alone, then the 10 s delay.
C15_PublishBeforeAutomation ==
    [][pc' # pc =>
          /\ pc = "loop" => pc' \in {"reconnect", "client_loop"}
          /\ pc \in ReconnectPcs => pc' \in ReconnectPcs \cup {"client_loop"}
          /\ pc = "client_loop" => pc' = "drained"
          /\ pc = "drained" => pc' = (IF sketch = "readme" THEN "publish" ELSE "loop")
          /\ pc = "publish" => (pc' = "automate" /\ relay' = relay)
          /\ pc = "automate" => (pc' = "delay10000" /\ published' = published)
          /\ pc = "delay10000" => pc' = "loop"]_vars

\* C15 witness: the end of a README pass in which the reading was published
\* and the low threshold then switched the relay on.
C15_Witness ==
    /\ sketch = "readme" /\ pc = "delay10000" /\ connected
    /\ FloatLe(temp, lowThreshold) /\ published = TelemetryMsg(temp)
    /\ relay = "LOW"

----------------------------------------------------------------------------
(* The delay between connect attempts inside reconnect()                   *)

\* C16 as stated: whenever a connect attempt follows another one within a
\* call of reconnect(), at least 5000 ms of delay lie between the two, and
\* the delay is only entered after a failed attempt.
C16_NeverBackToBack ==
    /\ (pc = "connect" /\ lastAttempt # "none") => delayedMs >= 5000
    /\ pc = "delay5000" => lastAttempt = "failed"

\* C16 amended: a connect attempt that follows a failed one comes at least
\* 5000 ms after it; the delay is entered only right after a failed attempt,
\* never after a successful one; an attempt that follows a successful one
\* whose session was lost before the while test comes with no delay.
C16_DelayAfterFailureOnly ==
    /\ (pc = "connect" /\ lastAttempt = "failed") => delayedMs >= 5000
    /\ (pc = "connect" /\ lastAttempt = "ok") => (delayedMs = 0 /\ ~connected)
    /\ pc = "delay5000" => (lastAttempt = "failed" /\ delayedMs = 0 /\ ~connected)
    /\ lastAttempt = "ok" => pc # "delay5000"

\* C16 witness: the second attempt of a call, after a failed first attempt
\* and the delay.
C16_Witness ==
    /\ pc = "connect" /\ lastAttempt = "failed" /\ delayedMs = 5000
    /\ attempts = 1

----------------------------------------------------------------------------
(* Termination of reconnect()                                              *)

\* reconnect() returns: control leaves its while loop for client.loop().
ReconnectReturn == pc \in ReconnectPcs /\ pc' = "client_loop"

\* client.connect(...) returns true: the broker accepted the attempt.
ConnectAccepted == pc = "connect" /\ connected'

\* C17 as stated: if the broker accepts a connection attempt infinitely
\* often, every call of reconnect() eventually returns.
C17_ReturnsIfAcceptedOften ==
    []<><<ConnectAccepted>>_vars => (pc \in ReconnectPcs ~> pc = "client_loop")

\* C17 amended: reconnect() returns only from its while test, with the
\* session open, the control topic subscribed in it and the last attempt of
\* the call accepted (so never when the broker accepts none); a failed
\* attempt is always followed by another one; an accepted attempt is followed
\* by the return unless the session is lost first.
C17_ReturnsOnlyConnected ==
    /\ [][ReconnectReturn =>
             (pc = "reconnect" /\ connected /\ subscribed /\ lastAttempt = "ok")]_vars
    /\ (pc = "delay5000") ~> (pc = "connect")
    /\ (pc = "subscribe" /\ connected) ~> (pc = "client_loop" \/ ~connected)

\* C17 witness: reconnect() has returned after a failed and then an accepted
\* attempt.
C17_Witness ==
    /\ pc = "client_loop" /\ lastAttempt = "ok" /\ attempts = 2
    /\ connected /\ subscribed

----------------------------------------------------------------------------
(* The relay from boot to the first command or automation decision         *)

\* C18: once setup() has written the pin, which it does before WiFi.begin
\* and before any connect, the relay line is HIGH (Off) for as long as no
\* message has been delivered to the callback and no threshold test has
\* decided; in particular through the whole join wait and until the first
\* broker session exists.
C18_SafeBoot ==
    /\ (pc # "boot" /\ ~touched) => (relay = "HIGH" /\ ActuatorState = "Off")
    /\ (wifiBegun \/ attempts > 0 \/ lastAttempt # "none") => pc # "boot"
    /\ (pc # "boot" /\ sessions = 0) => (~touched /\ relay = "HIGH")
    /\ pc = "boot" => (relay = "INPUT" /\ ~wifiBegun /\ sessions = 0)

\* C18 witness: the first broker connect has failed twice, no session has
\* existed yet, and the relay is still Off.
C18_Witness ==
    /\ pc = "delay5000" /\ sessions = 0 /\ attempts = 2 /\ ~touched
    /\ relay = "HIGH"

====
